---- MODULE Spec2Model ----
(***************************************************************************)
(* The view layer of the photo sorter (gorfreee/photo_sorter_new):         *)
(*   src/view/dearpygui_view.py  DearPyGuiView, the Dear PyGui front-end   *)
(*   src/view/dialogs.py         the modal dialog helpers                  *)
(*   src/view/main_window.py     MainWindow, the Tk front-end              *)
(*                                                                         *)
(* The controller is the environment: it registers callbacks, pushes state *)
(* (set_categories, bind_category) and calls the dialog helpers; the user  *)
(* clicks, presses keys and ends dialogs.  Every handler is one action;    *)
(* the code that runs off the UI thread, the restore_theme closures of the *)
(* threading.Timer threads, is modelled statement by statement.            *)
(*                                                                         *)
(* Spec       the category grid: bind_category, set_categories, clicks,    *)
(*            digit keys, the feedback timers, with the About dialog       *)
(*            driving the modal flag.                                      *)
(* ModalSpec  the handlers the modal flag gates: the digit keys and        *)
(*            _on_select_folder, on one slot.                              *)
(* FeedbackSpec  the feedback pulse of the category buttons over the       *)
(*            category lists set_categories can be given.                  *)
(* ConfigSpec the category dialog of configure_category with its fields.   *)
(* DialogSpec the dialog helpers of dialogs.py, the modal flag and         *)
(*            _on_select_folder.                                           *)
(* NavSpec    the Previous and Next buttons, the arrow keys and the        *)
(*            timers of _show_nav_button_feedback.                         *)
(* PulseSpec  every pulse of the view, category and navigation, with       *)
(*            the timer threads scheduled fairly.                          *)
(* GridSpec   the category grid of both front-ends with the state pushes   *)
(*            and bind_category over indices in and out of range.          *)
(* TkSpec     the Tk front-end: set_categories, bind_category, the digit   *)
(*            keys and the button clicks.                                  *)
(* ResizeSpec the Tk front-end under <Configure> events, with the rebuild  *)
(*            _on_window_resize schedules with after_idle.                 *)
(* GestureSpec  every gesture of the Dear PyGui view whose callback the    *)
(*            controller may or may not have registered, up to destroy.    *)
(* The specifications share the variables and the actions; each leaves the *)
(* variables its actions do not write at their initial values.             *)
(***************************************************************************)
EXTENDS Integers, Sequences, FiniteSets, Bags, TLC

VARIABLES
    callbacks,                    \* self._callbacks: the event names that have a handler
    category_callbacks,           \* self._category_callbacks: idx -> [click, right]
    modal_open,                   \* self._modal_open
    keyboard_handlers_registered, \* self._keyboard_handlers_registered
    category_button_ids,          \* self._category_button_ids: idx -> button id
    feedback_timers,              \* the keys of self._feedback_timers (see Feedback timers)
    items,                        \* the category buttons Dear PyGui holds: id -> [label, theme, tooltip]
    select_folder_enabled,        \* "enabled" of the select_folder_button item
    timers,                       \* the threading.Timer threads that have not ended (a bag)
    select_frames,                \* _on_select_folder calls whose callback has not returned
    categories,                   \* the list last passed to set_categories
    cfg,                          \* the windows made by configure_category, in order of creation
    about_shown,                  \* the about_popup_dialogs window exists and is shown
    messages,                     \* open windows of _show_message_dialog
    how_to,                       \* open windows of show_how_to
    lastEvent,                    \* the handler that ran last: [kind, idx]
    calls,                        \* the controller callbacks that handler invoked, in order
    nav_feedback,                 \* the 'nav_prev' / 'nav_next' entries of self._feedback_timers
    nav_theme,                    \* the theme bound to the prev and next buttons
    nav_timers,                   \* the threading.Timer threads of _show_nav_button_feedback (a bag)
    context_alive,                \* dpg.destroy_context() has not been called
    cat_buttons,                  \* MainWindow.cat_buttons: [text, click, right] per button
    category_click_callback,      \* MainWindow.category_click_callback
    category_right_callback,      \* MainWindow.category_right_callback
    tk_keys_bound,                \* MainWindow.bind_keyboard_shortcuts has run
    tk_categories,                \* the list last passed to MainWindow.set_categories
    current_columns,              \* MainWindow.current_columns
    idle_queue                    \* the after_idle callbacks not yet run: the categories of each

viewVars == <<callbacks, category_callbacks, keyboard_handlers_registered,
              category_button_ids, feedback_timers, items, select_folder_enabled,
              timers, select_frames, categories>>
dialogVars == <<cfg, messages, how_to>>
navVars == <<nav_feedback, nav_theme, nav_timers>>
resizeVars == <<current_columns, idle_queue>>
tkVars == <<cat_buttons, category_click_callback, category_right_callback, tk_keys_bound,
            tk_categories, resizeVars>>
extVars == <<navVars, tkVars, context_alive>>
vars == <<viewVars, dialogVars, modal_open, about_shown, lastEvent, calls, extVars>>

---------------------------------------------------------------------------
(* Bounds of the model *)

\* Timer threads alive at once (waiting or running restore_theme).
MaxTimers == 2
\* Nested _on_select_folder calls.
MaxSelectDepth == 2
\* Calls of configure_category.
MaxDialogs == 2
\* Message and How-to windows open at once.
MaxPlain == 1
\* Timer threads of the navigation buttons alive at once.
MaxNavTimers == 2
\* Rebuilds scheduled with after_idle and not yet run.
MaxIdle == 2

(* Program constants *)

NumCategories == 9
GridRows == 3
GridCols == 3
\* MainWindow: self.current_columns = 9, min_btn_width, the padding
InitialColumns == 9
MinBtnWidth == 110
ResizePadding == 40

\* idx = row * 3 + col of set_categories
GridIdx == {row * GridCols + col : row \in 0..(GridRows - 1), col \in 0..(GridCols - 1)}

\* The slots the gestures of the model aim at: the first and the last.
DrivenIdx == {0, NumCategories - 1}

---------------------------------------------------------------------------
(* Python dicts as functions *)

EmptyDict == <<>>
Put(d, k, v) == [x \in (DOMAIN d) \cup {k} |-> IF x = k THEN v ELSE d[x]]
Del(d, k) == [x \in (DOMAIN d) \ {k} |-> d[x]]
Values(d) == {d[x] : x \in DOMAIN d}

---------------------------------------------------------------------------
(* Inputs *)

\* Text is a sequence of chunks, so that "'[Empty]' in label" and
\* str.strip() are computed, not assumed.
\* A category {name, path}.
EmptyCat == [name |-> <<>>, path |-> <<>>]
CategoryVals ==
    { EmptyCat,
      [name |-> <<"A">>, path |-> <<>>],
      [name |-> <<>>, path |-> <<"/x">>],
      [name |-> <<"A">>, path |-> <<"/x">>],
      [name |-> <<"[Empty]">>, path |-> <<"/x">>] }

\* The lists set_categories is called with: empty, one entry, nine entries.
FullList(c0, c8) ==
    [i \in 1..NumCategories |-> IF i = 1 THEN c0 ELSE IF i = NumCategories THEN c8 ELSE EmptyCat]
CategoryLists ==
    {<<>>} \cup {<<c>> : c \in CategoryVals \ {EmptyCat}}
           \cup {FullList(EmptyCat, [name |-> <<"A">>, path |-> <<"/x">>])}

\* The handlers bind_category is called with.
HandlerPairs == {[click |-> "on_click", right |-> "on_right_click"]}

\* Handlers that differ from slot to slot.
ClickHandlers == <<"f0", "f1", "f2", "f3", "f4", "f5", "f6", "f7", "f8">>
RightHandlers == <<"g0", "g1", "g2", "g3", "g4", "g5", "g6", "g7", "g8">>
OwnPair(idx) == [click |-> ClickHandlers[idx + 1], right |-> RightHandlers[idx + 1]]

\* The idx values bind_category is called with, in and out of range.
IndexInputs == {-1, 0, NumCategories - 1, NumCategories}

\* A list of ten entries, the tenth configured.
LongList ==
    [i \in 1..(NumCategories + 1) |->
        IF i = NumCategories + 1 THEN [name |-> <<"A">>, path |-> <<"/x">>] ELSE EmptyCat]

\* What the user can have typed in the name and folder fields of the
\* category dialog, and what initial holds.
NameTexts == {<<>>, <<" ">>, <<" ", "a">>}
FolderTexts == {<<>>, <<" ">>, <<"/", "x">>}

NoArg == -1
Event(kind, idx) == [kind |-> kind, idx |-> idx]
Other == Event("other", NoArg)

---------------------------------------------------------------------------
(* Dear PyGui items *)

\* The id of the button of slot idx in the current grid. Ids are only ever
\* tested for existence (does_item_exist), so the id of a deleted button is
\* written DeletedId wherever a timer still holds it, and a rebuilt grid
\* takes the ids ButtonId(idx) again.
ButtonId(idx) == idx + 1
IdxOf(id) == id - 1
DeletedId == 0

does_item_exist(id) == id \in DOMAIN items

Digits == <<"1", "2", "3", "4", "5", "6", "7", "8", "9">>

\* button_text of _create_category_button
ButtonText(idx, name) ==
    IF name # <<>> THEN <<Digits[idx + 1], ": ">> \o name
    ELSE <<Digits[idx + 1], ": ", "[Empty]">>

\* Python's "needle in text"
Contains(text, needle) == \E i \in 1..Len(text) : text[i] = needle

\* a faulty theme: a slot with a name counts as defined
CreatedThemeNameOnly(cat) ==
    IF cat.name # <<>> THEN "category_defined" ELSE "category"

\* theme of _create_category_button
CreatedTheme(cat) ==
    IF cat.name # <<>> /\ cat.path # <<>> THEN "category_defined" ELSE "category"

CreateCategoryButton(idx, cat) ==
    [label |-> ButtonText(idx, cat.name), theme |-> CreatedTheme(cat), tooltip |-> cat.path]

\* categories[idx] if idx < len(categories) else {"name": "", "path": ""}
CatAt(cats, idx) == IF idx < Len(cats) THEN cats[idx + 1] ELSE EmptyCat

---------------------------------------------------------------------------
(* Feedback timers *)
(* A timer thread is [idx, button_id, pc, held]: the closure's idx and      *)
(* button_id, the statement it is at, and whether self._feedback_timers[idx]*)
(* is this timer object. feedback_timers holds the keys of the dict; a key  *)
(* no live timer holds maps to a timer whose thread has ended.              *)

\* theme restore_theme binds, from the label of the button
RestoredTheme(label) ==
    IF Contains(label, "[Empty]") THEN "category" ELSE "category_defined"

One(t) == SetToBag({t})
Unhold(idx, t) == IF t.idx = idx THEN [t EXCEPT !.held = FALSE] ELSE t
UnholdAll(tm, idx) == BagOfAll(LAMBDA t : Unhold(idx, t), tm)

\* the timers timer.cancel() stops: the one the dict holds for idx, if it
\* still waits; one that already runs restore_theme is not stopped
Cancelled(tm, idx) == {t \in BagToSet(tm) : t.idx = idx /\ t.held /\ t.pc = "waiting"}

\* _show_button_feedback(idx) on the feedback state s = [ft, tm, it]
\* (feedback_timers, timers, items)
ShowButtonFeedback(s, idx) ==
    IF idx \notin DOMAIN category_button_ids THEN s
    ELSE
        LET button_id == category_button_ids[idx]
            kept == UnholdAll(s.tm (-) SetToBag(Cancelled(s.tm, idx)), idx)
            timer == [idx |-> idx, button_id |-> button_id, pc |-> "waiting", held |-> TRUE]
        IN [ft |-> s.ft \cup {idx},
            tm |-> kept (+) One(timer),
            it |-> [s.it EXCEPT ![button_id].theme = "category_feedback"]]

Feedback == [ft |-> feedback_timers, tm |-> timers, it |-> items]

SetFeedback(s) ==
    /\ BagCardinality(s.tm) <= MaxTimers
    /\ feedback_timers' = s.ft
    /\ timers' = s.tm
    /\ items' = s.it

---------------------------------------------------------------------------
(* Initial state: a DearPyGuiView and a MainWindow have been constructed *)

\* the keys of self._nav_button_ids
NavButtons == {"prev", "next"}
\* self._themes[which], the resting theme of a navigation button
NavTheme(which) == which
\* Python's None
None == "None"

Init ==
    /\ callbacks = {}
    /\ category_callbacks = EmptyDict
    /\ modal_open = FALSE
    /\ keyboard_handlers_registered = FALSE
    /\ category_button_ids = EmptyDict
    /\ feedback_timers = {}
    /\ items = EmptyDict
    /\ select_folder_enabled = TRUE
    /\ timers = EmptyBag
    /\ select_frames = 0
    /\ categories = <<>>
    /\ cfg = <<>>
    /\ about_shown = FALSE
    /\ messages = 0
    /\ how_to = 0
    /\ lastEvent = Other
    /\ calls = <<>>
    /\ nav_feedback = EmptyDict
    /\ nav_theme = [which \in NavButtons |-> NavTheme(which)]
    /\ nav_timers = EmptyBag
    /\ context_alive = TRUE
    /\ cat_buttons = <<>>
    /\ category_click_callback = None
    /\ category_right_callback = None
    /\ tk_keys_bound = FALSE
    /\ tk_categories = <<>>
    /\ current_columns = InitialColumns
    /\ idle_queue = <<>>

---------------------------------------------------------------------------
(* DearPyGuiView: registration and pushed state *)

\* on_select_folder(callback)
RegisterSelectFolder ==
    /\ callbacks' = callbacks \cup {"select_folder"}
    /\ lastEvent' = Other
    /\ UNCHANGED extVars
    /\ calls' = <<>>
    /\ UNCHANGED <<category_callbacks, keyboard_handlers_registered, category_button_ids,
                   feedback_timers, items, select_folder_enabled, timers, select_frames,
                   categories, dialogVars, modal_open, about_shown>>

\* bind_keyboard_shortcuts()
BindKeyboardShortcuts ==
    /\ keyboard_handlers_registered' = TRUE
    /\ lastEvent' = Other
    /\ UNCHANGED extVars
    /\ calls' = <<>>
    /\ UNCHANGED <<callbacks, category_callbacks, category_button_ids,
                   feedback_timers, items, select_folder_enabled, timers, select_frames,
                   categories, dialogVars, modal_open, about_shown>>

\* bind_category(idx, on_click, on_right_click)
BindCategory(idx, pair) ==
    /\ category_callbacks' = Put(category_callbacks, idx, pair)
    /\ lastEvent' = Other
    /\ UNCHANGED extVars
    /\ calls' = <<>>
    /\ UNCHANGED <<callbacks, keyboard_handlers_registered, category_button_ids,
                   feedback_timers, items, select_folder_enabled, timers, select_frames,
                   categories, dialogVars, modal_open, about_shown>>

\* set_categories(cats): the grid is deleted and rebuilt, the category
\* callbacks are cleared, the feedback timers are left alone.
SetCategories(cats) ==
    /\ category_callbacks' = EmptyDict
    /\ category_button_ids' = [idx \in GridIdx |-> ButtonId(idx)]
    /\ items' = [b \in {ButtonId(idx) : idx \in GridIdx} |->
                   CreateCategoryButton(IdxOf(b), CatAt(cats, IdxOf(b)))]
    /\ timers' = BagOfAll(LAMBDA t : [t EXCEPT !.button_id = DeletedId], timers)
    /\ categories' = cats
    /\ lastEvent' = Event("set_categories", NoArg)
    /\ UNCHANGED extVars
    /\ calls' = <<>>
    /\ UNCHANGED <<callbacks, keyboard_handlers_registered, feedback_timers,
                   select_folder_enabled, select_frames,
                   dialogVars, modal_open, about_shown>>

---------------------------------------------------------------------------
(* DearPyGuiView: gestures *)

\* a faulty dispatch: the left-click path calls the right-click handler
CategoryClickCallsSwapped(idx) ==
    IF idx \in DOMAIN category_callbacks
    THEN <<[fn |-> category_callbacks[idx].right, arg |-> idx]>>
    ELSE <<>>

\* the callback part of _on_category_click(idx)
CategoryClickCalls(idx) ==
    IF idx \in DOMAIN category_callbacks
    THEN <<[fn |-> category_callbacks[idx].click, arg |-> idx]>>
    ELSE <<>>

\* the callback part of _on_category_right_click(idx)
CategoryRightClickCalls(idx) ==
    IF idx \in DOMAIN category_callbacks
    THEN <<[fn |-> category_callbacks[idx].right, arg |-> idx]>>
    ELSE <<>>

\* _on_category_click(idx): left-click on category button idx
OnCategoryClick(idx) ==
    /\ idx \in DOMAIN category_button_ids
    /\ SetFeedback(ShowButtonFeedback(Feedback, idx))
    /\ calls' = CategoryClickCalls(idx)
    /\ lastEvent' = Event("click", idx)
    /\ UNCHANGED extVars
    /\ UNCHANGED <<callbacks, category_callbacks, keyboard_handlers_registered,
                   category_button_ids, select_folder_enabled, select_frames,
                   categories, dialogVars, modal_open, about_shown>>

\* _on_category_right_click(idx): right-click on category button idx
OnCategoryRightClick(idx) ==
    /\ idx \in DOMAIN category_button_ids
    /\ calls' = CategoryRightClickCalls(idx)
    /\ lastEvent' = Event("right_click", idx)
    /\ UNCHANGED extVars
    /\ UNCHANGED <<viewVars, dialogVars, modal_open, about_shown>>

\* user_data of the key press handler of digit key (idx = key - 1)
KeyUserData(key) == key - 1

\* a faulty key handler: it does not look at the modal flag
HandleKeyboardCategoryUngated(idx) ==
    /\ keyboard_handlers_registered
    /\ lastEvent' = Event("key", idx)
    /\ UNCHANGED extVars
    /\ SetFeedback(ShowButtonFeedback(ShowButtonFeedback(Feedback, idx), idx))
    /\ calls' = CategoryClickCalls(idx)
    /\ UNCHANGED <<callbacks, category_callbacks, keyboard_handlers_registered,
                   category_button_ids, select_folder_enabled, select_frames,
                   categories, dialogVars, modal_open, about_shown>>

\* _handle_keyboard_category(idx): digit key idx + 1
HandleKeyboardCategory(idx) ==
    /\ keyboard_handlers_registered
    /\ lastEvent' = Event("key", idx)
    /\ UNCHANGED extVars
    /\ IF modal_open
       THEN /\ calls' = <<>>
            /\ UNCHANGED <<feedback_timers, timers, items>>
       ELSE /\ SetFeedback(ShowButtonFeedback(ShowButtonFeedback(Feedback, idx), idx))
            /\ calls' = CategoryClickCalls(idx)
    /\ UNCHANGED <<callbacks, category_callbacks, keyboard_handlers_registered,
                   category_button_ids, select_folder_enabled, select_frames,
                   categories, dialogVars, modal_open, about_shown>>

\* _on_select_folder(), up to the call of the select_folder callback; with no
\* callback registered the finally clause runs at once.
OnSelectFolder ==
    /\ lastEvent' = Event("select_folder", NoArg)
    /\ UNCHANGED extVars
    /\ IF modal_open
       THEN /\ calls' = <<>>
            /\ UNCHANGED <<select_folder_enabled, select_frames>>
       ELSE IF "select_folder" \in callbacks
       THEN /\ select_frames < MaxSelectDepth
            /\ select_folder_enabled' = FALSE
            /\ calls' = <<[fn |-> "select_folder", arg |-> NoArg]>>
            /\ select_frames' = select_frames + 1
       ELSE /\ select_folder_enabled' = TRUE
            /\ calls' = <<>>
            /\ UNCHANGED select_frames
    /\ UNCHANGED <<callbacks, category_callbacks, keyboard_handlers_registered,
                   category_button_ids, feedback_timers, items, timers,
                   categories, dialogVars, modal_open, about_shown>>

\* the select_folder callback returns (or raises): the finally clause of
\* _on_select_folder
SelectFolderReturn ==
    /\ select_frames > 0
    /\ select_frames' = select_frames - 1
    /\ select_folder_enabled' = TRUE
    /\ lastEvent' = Other
    /\ UNCHANGED extVars
    /\ calls' = <<>>
    /\ UNCHANGED <<callbacks, category_callbacks, keyboard_handlers_registered,
                   category_button_ids, feedback_timers, items, timers,
                   categories, dialogVars, modal_open, about_shown>>

---------------------------------------------------------------------------
(* The timer thread of _show_button_feedback: threading.Timer.run and the  *)
(* restore_theme closure over (button_id, idx)                             *)

SetTimer(t, pc) == timers' = (timers (-) One(t)) (+) One([t EXCEPT !.pc = pc])

\* the delay is over and the timer was not cancelled: restore_theme starts
TimerFire(t) ==
    /\ t.pc = "waiting"
    /\ SetTimer(t, "exists")
    /\ lastEvent' = Other
    /\ UNCHANGED extVars
    /\ calls' = <<>>
    /\ UNCHANGED <<callbacks, category_callbacks, keyboard_handlers_registered,
                   category_button_ids, feedback_timers, items, select_folder_enabled,
                   select_frames, categories, dialogVars, modal_open, about_shown>>

\* if dpg.does_item_exist(button_id):
TimerExists(t) ==
    /\ t.pc = "exists"
    /\ SetTimer(t, IF does_item_exist(t.button_id) THEN "bind" ELSE "remove")
    /\ lastEvent' = Other
    /\ UNCHANGED extVars
    /\ calls' = <<>>
    /\ UNCHANGED <<callbacks, category_callbacks, keyboard_handlers_registered,
                   category_button_ids, feedback_timers, items, select_folder_enabled,
                   select_frames, categories, dialogVars, modal_open, about_shown>>

\* get_item_label and bind_item_theme; on a button deleted meanwhile they
\* raise and the thread ends without reaching the del
TimerBind(t) ==
    /\ t.pc = "bind"
    /\ IF does_item_exist(t.button_id)
       THEN /\ items' = [items EXCEPT ![t.button_id].theme = RestoredTheme(items[t.button_id].label)]
            /\ SetTimer(t, "remove")
       ELSE /\ timers' = timers (-) One(t)
            /\ UNCHANGED items
    /\ lastEvent' = Other
    /\ UNCHANGED extVars
    /\ calls' = <<>>
    /\ UNCHANGED <<callbacks, category_callbacks, keyboard_handlers_registered,
                   category_button_ids, feedback_timers, select_folder_enabled,
                   select_frames, categories, dialogVars, modal_open, about_shown>>

\* if idx in self._feedback_timers: del self._feedback_timers[idx]
TimerRemove(t) ==
    /\ t.pc = "remove"
    /\ feedback_timers' = feedback_timers \ {t.idx}
    /\ timers' = UnholdAll(timers (-) One(t), t.idx)
    /\ lastEvent' = Other
    /\ UNCHANGED extVars
    /\ calls' = <<>>
    /\ UNCHANGED <<callbacks, category_callbacks, keyboard_handlers_registered,
                   category_button_ids, items, select_folder_enabled,
                   select_frames, categories, dialogVars, modal_open, about_shown>>

---------------------------------------------------------------------------
(* DearPyGuiView: the navigation buttons                                   *)
(* A timer thread is [which, pc, latest]: the closure's which, the         *)
(* statement it is at, and whether it belongs to the most recent           *)
(* activation of its button. nav_feedback maps which to the value stored   *)
(* under f'nav_{which}': "True" or None.                                   *)

\* on_next(callback), on_prev(callback)
RegisterNav(which) ==
    /\ callbacks' = callbacks \cup {which}
    /\ lastEvent' = Other
    /\ calls' = <<>>
    /\ UNCHANGED <<category_callbacks, keyboard_handlers_registered, category_button_ids,
                   feedback_timers, items, select_folder_enabled, timers, select_frames,
                   categories, dialogVars, modal_open, about_shown, extVars>>

\* self._themes['prev_feedback'], self._themes['next_feedback']
NavFeedbackTheme(which) == IF which = "prev" THEN "prev_feedback" ELSE "next_feedback"

NavSuperseded(which, t) == IF t.which = which THEN [t EXCEPT !.latest = FALSE] ELSE t

\* _show_nav_button_feedback(which): the entry is set to None and then to
\* True, the feedback theme is bound, a new timer is started; the timer of
\* an earlier activation is left running
ShowNavButtonFeedback(which) ==
    /\ BagCardinality(nav_timers) < MaxNavTimers
    /\ nav_feedback' = Put(nav_feedback, which, "True")
    /\ nav_theme' = [nav_theme EXCEPT ![which] = NavFeedbackTheme(which)]
    /\ nav_timers' = BagOfAll(LAMBDA t : NavSuperseded(which, t), nav_timers)
                         (+) One([which |-> which, pc |-> "waiting", latest |-> TRUE])

\* a faulty callback part: the callback is called without looking it up
NavCallsUnchecked(which) == <<[fn |-> which, arg |-> NoArg]>>

\* the callback part of _on_next / _on_prev
NavCalls(which) ==
    IF which \in callbacks THEN <<[fn |-> which, arg |-> NoArg]>> ELSE <<>>

\* _on_prev / _on_next: the "<" and ">" buttons
OnNav(which) ==
    /\ calls' = NavCalls(which)
    /\ lastEvent' = Event(IF which = "prev" THEN "prev_button" ELSE "next_button", NoArg)
    /\ UNCHANGED <<viewVars, dialogVars, modal_open, about_shown, extVars>>

\* a faulty arrow key handler: it returns when a modal is open
HandleKeyboardNavGated(which) ==
    /\ keyboard_handlers_registered
    /\ lastEvent' = Event(IF which = "prev" THEN "key_left" ELSE "key_right", NoArg)
    /\ IF modal_open
       THEN calls' = <<>> /\ UNCHANGED navVars
       ELSE ShowNavButtonFeedback(which) /\ calls' = NavCalls(which)
    /\ UNCHANGED <<viewVars, dialogVars, modal_open, about_shown, tkVars, context_alive>>

\* _handle_keyboard_prev / _handle_keyboard_next: the Left and Right keys
HandleKeyboardNav(which) ==
    /\ keyboard_handlers_registered
    /\ ShowNavButtonFeedback(which)
    /\ calls' = NavCalls(which)
    /\ lastEvent' = Event(IF which = "prev" THEN "key_left" ELSE "key_right", NoArg)
    /\ UNCHANGED <<viewVars, dialogVars, modal_open, about_shown, tkVars, context_alive>>

\* restore_theme of _show_nav_button_feedback, when the delay is over:
\* if self._feedback_timers.get(nav_key) is not None
NavTimerCheck(t) ==
    /\ t.pc = "waiting"
    /\ nav_timers' = IF t.which \in DOMAIN nav_feedback /\ nav_feedback[t.which] # None
                     THEN (nav_timers (-) One(t)) (+) One([t EXCEPT !.pc = "bind"])
                     ELSE nav_timers (-) One(t)
    /\ lastEvent' = Other
    /\ calls' = <<>>
    /\ UNCHANGED <<viewVars, dialogVars, modal_open, about_shown, nav_feedback, nav_theme,
                   tkVars, context_alive>>

\* dpg.bind_item_theme(button_id, self._themes[which])
NavTimerBind(t) ==
    /\ t.pc = "bind"
    /\ nav_theme' = [nav_theme EXCEPT ![t.which] = NavTheme(t.which)]
    /\ nav_timers' = (nav_timers (-) One(t)) (+) One([t EXCEPT !.pc = "remove"])
    /\ lastEvent' = Other
    /\ calls' = <<>>
    /\ UNCHANGED <<viewVars, dialogVars, modal_open, about_shown, nav_feedback,
                   tkVars, context_alive>>

\* if nav_key in self._feedback_timers: del self._feedback_timers[nav_key]
NavTimerRemove(t) ==
    /\ t.pc = "remove"
    /\ nav_feedback' = Del(nav_feedback, t.which)
    /\ nav_timers' = nav_timers (-) One(t)
    /\ lastEvent' = Other
    /\ calls' = <<>>
    /\ UNCHANGED <<viewVars, dialogVars, modal_open, about_shown, nav_theme,
                   tkVars, context_alive>>

---------------------------------------------------------------------------
(* DearPyGuiView: reset and close *)

\* add_reset_button(callback)
RegisterReset ==
    /\ callbacks' = callbacks \cup {"reset"}
    /\ lastEvent' = Other
    /\ calls' = <<>>
    /\ UNCHANGED <<category_callbacks, keyboard_handlers_registered, category_button_ids,
                   feedback_timers, items, select_folder_enabled, timers, select_frames,
                   categories, dialogVars, modal_open, about_shown, extVars>>

\* protocol("WM_DELETE_WINDOW", callback)
Protocol ==
    /\ callbacks' = callbacks \cup {"close"}
    /\ lastEvent' = Other
    /\ calls' = <<>>
    /\ UNCHANGED <<category_callbacks, keyboard_handlers_registered, category_button_ids,
                   feedback_timers, items, select_folder_enabled, timers, select_frames,
                   categories, dialogVars, modal_open, about_shown, extVars>>

\* _on_reset: the Reset button
OnReset ==
    /\ calls' = IF "reset" \in callbacks THEN <<[fn |-> "reset", arg |-> NoArg]>> ELSE <<>>
    /\ lastEvent' = Event("reset", NoArg)
    /\ UNCHANGED <<viewVars, dialogVars, modal_open, about_shown, extVars>>

\* destroy(): the close callback, then dpg.destroy_context(), which takes
\* every item with it
Destroy ==
    /\ calls' = IF "close" \in callbacks THEN <<[fn |-> "close", arg |-> NoArg]>> ELSE <<>>
    /\ context_alive' = FALSE
    /\ items' = EmptyDict
    /\ lastEvent' = Event("destroy", NoArg)
    /\ UNCHANGED <<callbacks, category_callbacks, keyboard_handlers_registered,
                   category_button_ids, feedback_timers, select_folder_enabled, timers,
                   select_frames, categories, dialogVars, modal_open, about_shown,
                   navVars, tkVars>>

---------------------------------------------------------------------------
(* DearPyGuiView: the other pushes of state *)

\* show_image, update_status, set_selected_folder_path: they write the image,
\* the status text and the folder text, which no handler reads
PushKinds == {"show_image", "update_status", "set_selected_folder_path"}
PushState(kind) ==
    /\ lastEvent' = Event(kind, NoArg)
    /\ calls' = <<>>
    /\ UNCHANGED <<viewVars, dialogVars, modal_open, about_shown, extVars>>

---------------------------------------------------------------------------
(* MainWindow, the Tk front-end                                            *)
(* cat_buttons[i] is [text, click, right]: the text of the button and what *)
(* its <Button-1> and <Button-3> bindings call, <<>> when it has none.     *)

\* btn_text of _rebuild_category_grid
TkButtonText(i, cats) ==
    IF i < Len(cats) /\ cats[i + 1].name # <<>> /\ cats[i + 1].path # <<>>
    THEN <<Digits[i + 1], ": ">> \o cats[i + 1].name
    ELSE <<Digits[i + 1], ": ", "Select a category">>

\* set_categories(categories): the old buttons are destroyed, nine new ones
\* are made by _rebuild_category_grid
TkSetCategories(cats) ==
    /\ cat_buttons' = [i \in 1..NumCategories |->
                          [text |-> TkButtonText(i - 1, cats), click |-> <<>>, right |-> <<>>]]
    /\ tk_categories' = cats
    /\ lastEvent' = Event("tk_set_categories", NoArg)
    /\ calls' = <<>>
    /\ UNCHANGED <<viewVars, dialogVars, modal_open, about_shown, navVars, context_alive,
                   category_click_callback, category_right_callback, tk_keys_bound,
                   resizeVars>>

\* Python's list[idx]: the position of the element, 0 when idx is out of range
PyIndex(seq, idx) ==
    IF 0 <= idx /\ idx < Len(seq) THEN idx + 1
    ELSE IF idx < 0 /\ -idx <= Len(seq) THEN Len(seq) + idx + 1
    ELSE 0

\* bind_category(idx, on_click, on_right_click); self.cat_buttons[idx] raises
\* IndexError when idx is out of range, and nothing is bound or stored
TkBindCategory(idx, pair) ==
    /\ IF PyIndex(cat_buttons, idx) # 0
       THEN /\ cat_buttons' = [cat_buttons EXCEPT ![PyIndex(cat_buttons, idx)] =
                                  [@ EXCEPT !.click = <<[fn |-> pair.click, arg |-> idx]>>,
                                            !.right = <<[fn |-> pair.right, arg |-> idx]>>]]
            /\ category_click_callback' = pair.click
            /\ category_right_callback' = pair.right
       ELSE UNCHANGED <<cat_buttons, category_click_callback, category_right_callback>>
    /\ lastEvent' = Event("tk_bind_category", idx)
    /\ calls' = <<>>
    /\ UNCHANGED <<viewVars, dialogVars, modal_open, about_shown, navVars, context_alive,
                   tk_keys_bound, tk_categories, resizeVars>>

\* bind_keyboard_shortcuts()
TkBindKeyboardShortcuts ==
    /\ tk_keys_bound' = TRUE
    /\ lastEvent' = Other
    /\ calls' = <<>>
    /\ UNCHANGED <<viewVars, dialogVars, modal_open, about_shown, navVars, context_alive,
                   cat_buttons, category_click_callback, category_right_callback,
                   tk_categories, resizeVars>>

\* the binding of digit key idx + 1:
\* self.category_click_callback(idx) if self.category_click_callback else None
TkKey(idx) ==
    /\ tk_keys_bound
    /\ calls' = IF category_click_callback # None
                THEN <<[fn |-> category_click_callback, arg |-> idx]>>
                ELSE <<>>
    /\ lastEvent' = Event("tk_key", idx)
    /\ UNCHANGED <<viewVars, dialogVars, modal_open, about_shown, extVars>>

\* handle_click(e, 'left'): <Button-1> on button idx
TkClick(idx) ==
    /\ idx < Len(cat_buttons)
    /\ calls' = cat_buttons[idx + 1].click
    /\ lastEvent' = Event("tk_click", idx)
    /\ UNCHANGED <<viewVars, dialogVars, modal_open, about_shown, extVars>>

\* handle_click(e, 'right'): <Button-3> on button idx
TkRightClick(idx) ==
    /\ idx < Len(cat_buttons)
    /\ calls' = cat_buttons[idx + 1].right
    /\ lastEvent' = Event("tk_right_click", idx)
    /\ UNCHANGED <<viewVars, dialogVars, modal_open, about_shown, extVars>>

\* the widgets a <Configure> event comes from, the widths it carries
ConfigureWidgets == {"self", "child"}
ConfigureWidths == {30, 400, 1200}

\* columns = max(1, min(9, available_width // min_btn_width))
Max2(a, b) == IF a >= b THEN a ELSE b
Min2(a, b) == IF a <= b THEN a ELSE b
ResizeColumns(width) ==
    Max2(1, Min2(NumCategories, (width - ResizePadding) \div MinBtnWidth))

\* 'Select a category' not in btn_text
TkTextConfigured(text) == \A k \in 1..Len(text) : text[k] # "Select a category"

\* the categories _on_window_resize reads back from the button texts:
\* btn_text[3:] drops the digit and ': '; the path is not in the text
ResizeCategories(buttons) ==
    [i \in 1..Len(buttons) |->
        IF TkTextConfigured(buttons[i].text)
        THEN [name |-> SubSeq(buttons[i].text, 3, Len(buttons[i].text)), path |-> <<>>]
        ELSE EmptyCat]

\* _on_window_resize(event): events of child widgets are ignored; when the
\* column count changes it is stored and set_categories is scheduled with
\* after_idle
TkOnWindowResize(widget, width) ==
    /\ IF widget = "self" /\ ResizeColumns(width) # current_columns
       THEN /\ Len(idle_queue) < MaxIdle
            /\ current_columns' = ResizeColumns(width)
            /\ idle_queue' = Append(idle_queue, ResizeCategories(cat_buttons))
       ELSE UNCHANGED resizeVars
    /\ lastEvent' = Event("tk_configure", NoArg)
    /\ calls' = <<>>
    /\ UNCHANGED <<viewVars, dialogVars, modal_open, about_shown, navVars, context_alive,
                   cat_buttons, category_click_callback, category_right_callback,
                   tk_keys_bound, tk_categories>>

\* the after_idle callback: lambda: self.set_categories(categories)
TkIdleRebuild ==
    /\ idle_queue # <<>>
    /\ cat_buttons' = [i \in 1..NumCategories |->
                          [text |-> TkButtonText(i - 1, Head(idle_queue)),
                           click |-> <<>>, right |-> <<>>]]
    /\ tk_categories' = Head(idle_queue)
    /\ idle_queue' = Tail(idle_queue)
    /\ lastEvent' = Event("tk_idle_rebuild", NoArg)
    /\ calls' = <<>>
    /\ UNCHANGED <<viewVars, dialogVars, modal_open, about_shown, navVars, context_alive,
                   category_click_callback, category_right_callback, tk_keys_bound,
                   current_columns>>

---------------------------------------------------------------------------
(* dialogs.py: the About dialog *)

\* show_about(): the window is created on the first call (hidden), the flag
\* is set, the window is shown
ShowAbout ==
    /\ about_shown' = TRUE
    /\ modal_open' = TRUE
    /\ lastEvent' = Event("show_about", NoArg)
    /\ UNCHANGED extVars
    /\ calls' = <<>>
    /\ UNCHANGED <<viewVars, dialogVars>>

\* close_popup of show_about: the Close button of the About window
CloseAbout ==
    /\ about_shown
    /\ about_shown' = FALSE
    /\ modal_open' = FALSE
    /\ lastEvent' = Other
    /\ UNCHANGED extVars
    /\ calls' = <<>>
    /\ UNCHANGED <<viewVars, dialogVars>>

---------------------------------------------------------------------------
(* dialogs.py: message and How-to windows *)

\* _show_message_dialog(title, message): show_info, show_warning, show_error
ShowMessage ==
    /\ messages + how_to < MaxPlain
    /\ messages' = messages + 1
    /\ lastEvent' = Event("show_message", NoArg)
    /\ UNCHANGED extVars
    /\ calls' = <<>>
    /\ UNCHANGED <<viewVars, cfg, how_to, modal_open, about_shown>>

\* _close_dialog: the OK button of a message window (the close control of
\* the window hides it instead; neither touches the modal flag)
CloseMessage ==
    /\ messages > 0
    /\ messages' = messages - 1
    /\ lastEvent' = Other
    /\ UNCHANGED extVars
    /\ calls' = <<>>
    /\ UNCHANGED <<viewVars, cfg, how_to, modal_open, about_shown>>

\* show_how_to()
ShowHowTo ==
    /\ messages + how_to < MaxPlain
    /\ how_to' = how_to + 1
    /\ lastEvent' = Event("show_how_to", NoArg)
    /\ UNCHANGED extVars
    /\ calls' = <<>>
    /\ UNCHANGED <<viewVars, cfg, messages, modal_open, about_shown>>

\* _close of show_how_to: the Close button of a How-to window
CloseHowTo ==
    /\ how_to > 0
    /\ how_to' = how_to - 1
    /\ lastEvent' = Other
    /\ UNCHANGED extVars
    /\ calls' = <<>>
    /\ UNCHANGED <<viewVars, cfg, messages, modal_open, about_shown>>

---------------------------------------------------------------------------
(* dialogs.py: configure_category                                          *)
(* cfg[w] is the window of the w-th call: [idx, name, folder, ok_enabled,  *)
(* state, outcomes]; state is "shown", "closed" (hidden by the close       *)
(* control of the window) or "deleted"; outcomes is what callback got.     *)

IsSpace(c) == c = " "

RECURSIVE LStrip(_)
LStrip(s) == IF s # <<>> /\ IsSpace(Head(s)) THEN LStrip(Tail(s)) ELSE s

RECURSIVE RStrip(_)
RStrip(s) == IF s # <<>> /\ IsSpace(s[Len(s)]) THEN RStrip(SubSeq(s, 1, Len(s) - 1)) ELSE s

\* str.strip()
Strip(s) == RStrip(LStrip(s))

\* bool(str)
Truthy(s) == s # <<>>

\* a faulty _update_ok_state: the fields are not stripped
UpdateOkStateUnstripped(d) ==
    [d EXCEPT !.ok_enabled = Truthy(d.name) /\ Truthy(d.folder)]

\* _update_ok_state on the window d
UpdateOkState(d) ==
    [d EXCEPT !.ok_enabled = Truthy(Strip(d.name)) /\ Truthy(Strip(d.folder))]

Windows == 1..Len(cfg)
Shown(w) == cfg[w].state = "shown"

\* delete_item(window_id): the window and its fields are gone
Deleted(d, outcome) ==
    [d EXCEPT !.state = "deleted", !.name = <<>>, !.folder = <<>>, !.ok_enabled = FALSE,
              !.outcomes = Append(d.outcomes, outcome)]

\* configure_category(idx, initial, callback)
ConfigureCategory(idx, initial) ==
    /\ Len(cfg) < MaxDialogs
    /\ cfg' = Append(cfg, UpdateOkState([idx |-> idx, name |-> initial.name,
                                         folder |-> initial.path, ok_enabled |-> TRUE,
                                         state |-> "shown", outcomes |-> <<>>]))
    /\ modal_open' = TRUE
    /\ lastEvent' = Event("configure_category", Len(cfg) + 1)
    /\ UNCHANGED extVars
    /\ calls' = <<>>
    /\ UNCHANGED <<viewVars, messages, how_to, about_shown>>

\* the callback of the name field: the user edits the name
EditName(w, text) ==
    /\ Shown(w)
    /\ text # cfg[w].name
    /\ cfg' = [cfg EXCEPT ![w] = UpdateOkState([@ EXCEPT !.name = text])]
    /\ lastEvent' = Other
    /\ UNCHANGED extVars
    /\ calls' = <<>>
    /\ UNCHANGED <<viewVars, messages, how_to, modal_open, about_shown>>

\* the callback of the folder field: the user edits the folder
EditFolder(w, text) ==
    /\ Shown(w)
    /\ text # cfg[w].folder
    /\ cfg' = [cfg EXCEPT ![w] = UpdateOkState([@ EXCEPT !.folder = text])]
    /\ lastEvent' = Other
    /\ UNCHANGED extVars
    /\ calls' = <<>>
    /\ UNCHANGED <<viewVars, messages, how_to, modal_open, about_shown>>

\* _on_browse: askdirectory returned folder_selected ("" when cancelled)
OnBrowse(w, folder_selected) ==
    /\ Shown(w)
    /\ cfg' = IF Truthy(folder_selected)
              THEN [cfg EXCEPT ![w] = UpdateOkState([@ EXCEPT !.folder = folder_selected])]
              ELSE cfg
    /\ lastEvent' = Event("browse", w)
    /\ UNCHANGED extVars
    /\ calls' = <<>>
    /\ UNCHANGED <<viewVars, messages, how_to, modal_open, about_shown>>

\* _on_ok: the Save button, which Dear PyGui runs only while it is enabled
OnOk(w) ==
    /\ Shown(w)
    /\ cfg[w].ok_enabled
    /\ cfg' = [cfg EXCEPT ![w] = Deleted(@, [action |-> "save", idx |-> @.idx,
                                              name |-> @.name, path |-> @.folder])]
    /\ modal_open' = FALSE
    /\ lastEvent' = Event("save", w)
    /\ UNCHANGED extVars
    /\ calls' = <<>>
    /\ UNCHANGED <<viewVars, messages, how_to, about_shown>>

\* _on_cancel: the Cancel button
OnCancel(w) ==
    /\ Shown(w)
    /\ cfg' = [cfg EXCEPT ![w] = Deleted(@, [action |-> "cancel", idx |-> @.idx])]
    /\ modal_open' = FALSE
    /\ lastEvent' = Event("cancel", w)
    /\ UNCHANGED extVars
    /\ calls' = <<>>
    /\ UNCHANGED <<viewVars, messages, how_to, about_shown>>

\* _on_delete: the Delete button
OnDelete(w) ==
    /\ Shown(w)
    /\ cfg' = [cfg EXCEPT ![w] = Deleted(@, [action |-> "delete", idx |-> @.idx])]
    /\ modal_open' = FALSE
    /\ lastEvent' = Event("delete", w)
    /\ UNCHANGED extVars
    /\ calls' = <<>>
    /\ UNCHANGED <<viewVars, messages, how_to, about_shown>>

\* The close control of the window: dpg.window(...) of configure_category
\* passes neither no_close=True nor on_close, so Dear PyGui hides the window
\* and runs no callback.
CloseControl(w) ==
    /\ Shown(w)
    /\ cfg' = [cfg EXCEPT ![w].state = "closed"]
    /\ lastEvent' = Event("close_control", w)
    /\ UNCHANGED extVars
    /\ calls' = <<>>
    /\ UNCHANGED <<viewVars, messages, how_to, modal_open, about_shown>>

---------------------------------------------------------------------------
(* The category grid *)

\* Timer threads alive at once in Spec, whose subject is the dispatch.
MaxDispatchTimers == 1

Next ==
    \/ BindKeyboardShortcuts
    \/ \E idx \in DrivenIdx, pair \in HandlerPairs : BindCategory(idx, pair)
    \/ \E cats \in {<<>>, FullList(EmptyCat, [name |-> <<"A">>, path |-> <<"/x">>])} :
           SetCategories(cats)
    \/ \E idx \in DrivenIdx :
           OnCategoryClick(idx) /\ BagCardinality(timers') <= MaxDispatchTimers
    \/ \E idx \in DrivenIdx : OnCategoryRightClick(idx)
    \/ \E key \in {idx + 1 : idx \in DrivenIdx} :
           HandleKeyboardCategory(KeyUserData(key)) /\ BagCardinality(timers') <= MaxDispatchTimers
    \/ \E t \in BagToSet(timers) : TimerFire(t)
    \/ \E t \in BagToSet(timers) : TimerExists(t)
    \/ \E t \in BagToSet(timers) : TimerBind(t)
    \/ \E t \in BagToSet(timers) : TimerRemove(t)
    \/ ShowAbout
    \/ CloseAbout

Spec == Init /\ [][Next]_vars

(* The feedback pulse of the category buttons *)

FeedbackNext ==
    \/ BindKeyboardShortcuts
    \/ \E cats \in CategoryLists : SetCategories(cats)
    \/ \E idx \in DrivenIdx : OnCategoryClick(idx)
    \/ \E key \in {idx + 1 : idx \in DrivenIdx} : HandleKeyboardCategory(KeyUserData(key))
    \/ \E t \in BagToSet(timers) : TimerFire(t)
    \/ \E t \in BagToSet(timers) : TimerExists(t)
    \/ \E t \in BagToSet(timers) : TimerBind(t)
    \/ \E t \in BagToSet(timers) : TimerRemove(t)

FeedbackSpec == Init /\ [][FeedbackNext]_vars

(* The handlers the modal flag gates, on slot 0 *)

ModalNext ==
    \/ RegisterSelectFolder
    \/ BindKeyboardShortcuts
    \/ \E pair \in HandlerPairs : BindCategory(0, pair)
    \/ SetCategories(<<>>)
    \/ OnCategoryClick(0)
    \/ HandleKeyboardCategory(KeyUserData(1))
    \/ OnSelectFolder
    \/ SelectFolderReturn
    \/ \E t \in BagToSet(timers) : TimerFire(t)
    \/ \E t \in BagToSet(timers) : TimerExists(t)
    \/ \E t \in BagToSet(timers) : TimerBind(t)
    \/ \E t \in BagToSet(timers) : TimerRemove(t)
    \/ ShowAbout
    \/ CloseAbout

ModalSpec == Init /\ [][ModalNext]_vars

(* The category dialog alone: its fields, its buttons, its close control *)

ConfigNext ==
    \/ \E idx \in DrivenIdx, name \in NameTexts, path \in FolderTexts :
           ConfigureCategory(idx, [name |-> name, path |-> path])
    \/ \E w \in Windows, text \in NameTexts : EditName(w, text)
    \/ \E w \in Windows, text \in FolderTexts : EditFolder(w, text)
    \/ \E w \in Windows, text \in FolderTexts : OnBrowse(w, text)
    \/ \E w \in Windows : OnOk(w)
    \/ \E w \in Windows : OnCancel(w)
    \/ \E w \in Windows : OnDelete(w)
    \/ \E w \in Windows : CloseControl(w)

ConfigSpec == Init /\ [][ConfigNext]_vars

(* The dialogs and the modal flag; the category dialog opens on an empty   *)
(* or on a configured slot and its fields are not edited                   *)

InitialFields == {[name |-> <<>>, path |-> <<>>], [name |-> <<" ", "a">>, path |-> <<"/", "x">>]}

DialogNext ==
    \/ RegisterSelectFolder
    \/ OnSelectFolder
    \/ SelectFolderReturn
    \/ ShowAbout
    \/ CloseAbout
    \/ ShowMessage
    \/ CloseMessage
    \/ ShowHowTo
    \/ CloseHowTo
    \/ \E idx \in DrivenIdx, initial \in InitialFields : ConfigureCategory(idx, initial)
    \/ \E w \in Windows : OnOk(w)
    \/ \E w \in Windows : OnCancel(w)
    \/ \E w \in Windows : OnDelete(w)
    \/ \E w \in Windows : CloseControl(w)

DialogSpec == Init /\ [][DialogNext]_vars

(* The navigation buttons and the arrow keys *)

NavNext ==
    \/ BindKeyboardShortcuts
    \/ \E which \in NavButtons : RegisterNav(which)
    \/ \E which \in NavButtons : OnNav(which)
    \/ \E which \in NavButtons : HandleKeyboardNav(which)
    \/ \E t \in BagToSet(nav_timers) : NavTimerCheck(t)
    \/ \E t \in BagToSet(nav_timers) : NavTimerBind(t)
    \/ \E t \in BagToSet(nav_timers) : NavTimerRemove(t)
    \/ ShowAbout
    \/ CloseAbout

NavSpec == Init /\ [][NavNext]_vars

(* The pulses of all buttons: the grid is built once, then the buttons are *)
(* activated; every timer that was started and not cancelled fires, and a  *)
(* timer thread that runs restore_theme goes on running                    *)

PulseList == FullList(EmptyCat, [name |-> <<"A">>, path |-> <<"/x">>])

PulseTimerStep ==
    \/ \E t \in BagToSet(timers) : TimerFire(t)
    \/ \E t \in BagToSet(timers) : TimerExists(t)
    \/ \E t \in BagToSet(timers) : TimerBind(t)
    \/ \E t \in BagToSet(timers) : TimerRemove(t)
    \/ \E t \in BagToSet(nav_timers) : NavTimerCheck(t)
    \/ \E t \in BagToSet(nav_timers) : NavTimerBind(t)
    \/ \E t \in BagToSet(nav_timers) : NavTimerRemove(t)

PulseNext ==
    \/ BindKeyboardShortcuts
    \/ category_button_ids = EmptyDict /\ SetCategories(PulseList)
    \/ \E idx \in DrivenIdx : OnCategoryClick(idx)
    \/ \E key \in {idx + 1 : idx \in DrivenIdx} : HandleKeyboardCategory(KeyUserData(key))
    \/ \E which \in NavButtons : HandleKeyboardNav(which)
    \/ PulseTimerStep

PulseSpec == Init /\ [][PulseNext]_vars /\ WF_vars(PulseTimerStep)

(* The grid of both front-ends: lists of every shape and idx values in    *)
(* and out of range                                                        *)

GridLists == CategoryLists \cup {LongList}

GridNext ==
    \/ \E cats \in GridLists : SetCategories(cats)
    \/ \E idx \in IndexInputs, pair \in HandlerPairs : BindCategory(idx, pair)
    \/ \E idx \in DrivenIdx : OnCategoryRightClick(idx)
    \/ \E kind \in PushKinds : PushState(kind)
    \/ \E cats \in GridLists : TkSetCategories(cats)
    \/ \E idx \in IndexInputs, pair \in HandlerPairs : TkBindCategory(idx, pair)
    \/ \E idx \in DrivenIdx : TkClick(idx)

GridSpec == Init /\ [][GridNext]_vars

(* The Tk front-end with a handler pair of its own for every slot *)

TkNext ==
    \/ TkSetCategories(<<>>)
    \/ \E idx \in GridIdx : TkBindCategory(idx, OwnPair(idx))
    \/ TkBindKeyboardShortcuts
    \/ \E idx \in DrivenIdx : TkKey(idx)
    \/ \E idx \in DrivenIdx : TkClick(idx)
    \/ \E idx \in DrivenIdx : TkRightClick(idx)

TkSpec == Init /\ [][TkNext]_vars

(* The Tk front-end under <Configure> events: the rebuild a resize        *)
(* schedules runs when the event loop is idle                             *)

ResizeNext ==
    \/ \E cats \in CategoryLists : TkSetCategories(cats)
    \/ \E idx \in DrivenIdx : TkBindCategory(idx, OwnPair(idx))
    \/ \E widget \in ConfigureWidgets, width \in ConfigureWidths : TkOnWindowResize(widget, width)
    \/ TkIdleRebuild
    \/ \E idx \in DrivenIdx : TkClick(idx)

ResizeSpec == Init /\ [][ResizeNext]_vars

(* Every gesture of the Dear PyGui view, with and without its callback;   *)
(* no gesture reaches the view once its context is destroyed; the next     *)
(* callback is never registered and the Right key is left out              *)

GestureNext ==
    \/ context_alive /\ RegisterSelectFolder
    \/ context_alive /\ RegisterNav("prev")
    \/ context_alive /\ RegisterReset
    \/ context_alive /\ Protocol
    \/ context_alive /\ BindKeyboardShortcuts
    \/ context_alive /\ SetCategories(<<>>)
    \/ context_alive /\ \E pair \in HandlerPairs : BindCategory(0, pair)
    \/ context_alive /\ \E which \in NavButtons : OnNav(which)
    \/ context_alive /\ HandleKeyboardNav("prev")
    \/ context_alive /\ OnSelectFolder
    \/ context_alive /\ SelectFolderReturn
    \/ context_alive /\ OnReset
    \/ context_alive /\ Destroy
    \/ context_alive /\ OnCategoryClick(0)
    \/ context_alive /\ OnCategoryRightClick(0)
    \/ context_alive /\ HandleKeyboardCategory(KeyUserData(1))
    \/ context_alive /\ ShowAbout
    \/ context_alive /\ CloseAbout
    \/ \E t \in BagToSet(nav_timers) : NavTimerCheck(t)
    \/ \E t \in BagToSet(nav_timers) : NavTimerBind(t)
    \/ \E t \in BagToSet(nav_timers) : NavTimerRemove(t)

GestureSpec == Init /\ [][GestureNext]_vars

---------------------------------------------------------------------------
(* Claims *)

ClickCall(idx) == [fn |-> category_callbacks[idx].click, arg |-> idx]
RightCall(idx) == [fn |-> category_callbacks[idx].right, arg |-> idx]

\* C1: after bind_category(idx, f, g), a left-click on category button idx,
\* or digit key idx+1 pressed while the modal flag is false, invokes f(idx)
\* exactly once and g not at all; a right-click on button idx invokes g(idx)
\* exactly once and f not at all.
C1_DispatchOnce ==
    \A idx \in GridIdx :
        idx \in DOMAIN category_callbacks =>
            /\ lastEvent = Event("click", idx) => calls = <<ClickCall(idx)>>
            /\ (lastEvent = Event("key", idx) /\ ~modal_open) => calls = <<ClickCall(idx)>>
            /\ lastEvent = Event("right_click", idx) => calls = <<RightCall(idx)>>

\* C1 witness: digit key 9 was pressed with no modal open and slot 8 bound,
\* and the click handler ran with 8.
C1_Witness ==
    /\ lastEvent = Event("key", NumCategories - 1)
    /\ ~modal_open
    /\ (NumCategories - 1) \in DOMAIN category_callbacks
    /\ calls = <<[fn |-> "on_click", arg |-> NumCategories - 1]>>

\* C2: while the modal flag is true, a digit key invokes no category handler
\* and the select-folder button invokes no select_folder callback; both leave
\* the callback registries, the feedback timers and the enabled state of the
\* select-folder button unchanged.
C2_ModalSuppresses ==
    [][(modal_open /\ lastEvent'.kind \in {"key", "select_folder"}) =>
           /\ calls' = <<>>
           /\ UNCHANGED <<callbacks, category_callbacks, feedback_timers, timers,
                          select_folder_enabled>>]_vars

\* C2 witness: with a modal open, digit key 1 was pressed on a bound slot
\* whose button has a timer pending, a select_folder callback is registered,
\* and nothing was invoked.
C2_Witness ==
    /\ modal_open
    /\ lastEvent = Event("key", 0)
    /\ 0 \in DOMAIN category_callbacks
    /\ "select_folder" \in callbacks
    /\ \E t \in BagToSet(timers) : t.idx = 0 /\ t.pc = "waiting"
    /\ calls = <<>>

\* C3: every configure_category(idx, initial, callback) ends with callback
\* invoked exactly once, with action save, cancel or delete and the given
\* idx, however the dialog is ended, the close control of the window
\* included; never zero times, never twice.
C3_CallbackExactlyOnce ==
    \A w \in Windows :
        /\ Len(cfg[w].outcomes) <= 1
        /\ cfg[w].state # "shown" =>
               /\ Len(cfg[w].outcomes) = 1
               /\ cfg[w].outcomes[1].action \in {"save", "cancel", "delete"}
               /\ cfg[w].outcomes[1].idx = cfg[w].idx

\* a text with something else than white space in it
NonBlank(text) == \E i \in 1..Len(text) : text[i] # " "

C4_Enabled ==
    \A w \in Windows :
        /\ cfg[w].state # "deleted" =>
               (cfg[w].ok_enabled <=> (NonBlank(cfg[w].name) /\ NonBlank(cfg[w].folder)))
        /\ \A i \in 1..Len(cfg[w].outcomes) :
               cfg[w].outcomes[i].action = "save" =>
                   cfg[w].outcomes[i].name # <<>> /\ cfg[w].outcomes[i].path # <<>>

C4_Saved ==
    \A w \in Windows :
        lastEvent' = Event("save", w) =>
            cfg'[w].outcomes = <<[action |-> "save", idx |-> cfg[w].idx,
                                  name |-> cfg[w].name, path |-> cfg[w].folder]>>

\* C4: in the category dialog the save action is enabled exactly when the
\* name and the path field are both non-empty after trimming, after every
\* edit and every browse; so the callback never gets "save" with an empty
\* name or path, and a save outcome carries the field values of that moment.
C4_SaveEnabledIffFilled == []C4_Enabled /\ [][C4_Saved]_vars

\* C4 witness: a dialog was saved with an untrimmed name, while another one
\* with a blank name has its save action disabled.
C4_Witness ==
    \E w, v \in Windows :
        /\ cfg[w].outcomes = <<[action |-> "save", idx |-> cfg[w].idx,
                                name |-> <<" ", "a">>, path |-> <<"/", "x">>]>>
        /\ cfg[v].state = "shown"
        /\ cfg[v].name = <<" ">>
        /\ cfg[v].folder = <<"/", "x">>
        /\ ~cfg[v].ok_enabled

\* C5: after save, cancel or delete of the category dialog the window no
\* longer exists and the modal flag is false; and the flag was true from the
\* return of configure_category until that action, that is, for as long as
\* the dialog is up.
C5_FlagHeldUntilTerminal ==
    /\ lastEvent.kind \in {"save", "cancel", "delete"} =>
           ~modal_open /\ cfg[lastEvent.idx].state = "deleted"
    /\ \A w \in Windows : Shown(w) => modal_open

\* C6: an _on_select_folder call that starts while an earlier one has not
\* returned does nothing: it does not invoke the select_folder callback.
C6_SecondCallIgnored ==
    ~(lastEvent.kind = "select_folder" /\ select_frames >= 2 /\ calls # <<>>)

\* C7: at most one category dialog or folder picker is open at any time (the
\* folder picker is up while a select_folder callback runs).
C7_OneDialogAtATime ==
    Cardinality({w \in Windows : Shown(w)}) + (IF select_frames > 0 THEN 1 ELSE 0) <= 1

\* C8: every dialog helper (show_info, show_warning, show_error, show_how_to,
\* show_about, configure_category) leaves the modal flag true when it has
\* opened its dialog.
C8_EveryDialogSetsFlag ==
    lastEvent.kind \in {"show_message", "show_how_to", "show_about", "configure_category"}
        => modal_open

Live(idx) == {t \in BagToSet(timers) : t.idx = idx /\ t.pc = "waiting"}

\* C9: for every category button at most one restore timer is live (started,
\* neither fired nor cancelled).
C9_OneLiveTimer ==
    \A idx \in GridIdx :
        /\ Cardinality(Live(idx)) <= 1
        /\ \A t \in Live(idx) : CopiesIn(t, timers) = 1

\* the resting theme of a slot: "defined" exactly when name and path are
\* both non-empty
RestingTheme(cat) ==
    IF cat.name # <<>> /\ cat.path # <<>> THEN "category_defined" ELSE "category"

\* C10: a category button is bound to the feedback theme or to the resting
\* theme of its slot: the end of a pulse restores the theme set_categories
\* gave the button, for every combination of empty and non-empty name and path.
C10_RestoredToRestingTheme ==
    \A idx \in DOMAIN category_button_ids :
        items[category_button_ids[idx]].theme
            \in {"category_feedback", RestingTheme(CatAt(categories, idx))}

\* the pulse of the most recent activation of a navigation button is pending
NavPulsePending(which) ==
    \E t \in BagToSet(nav_timers) : t.which = which /\ t.latest /\ t.pc = "waiting"

\* C11: a navigation button that was activated again before its restore
\* timer fired stays in the feedback theme until the timer of the most
\* recent activation fires: a superseded timer is cancelled and restores
\* nothing.
C11_LatestTimerRestores ==
    \A which \in NavButtons :
        NavPulsePending(which) => nav_theme[which] = NavFeedbackTheme(which)

\* no timer thread is left: every started timer has fired or was cancelled
AllTimersDone == timers = EmptyBag /\ nav_timers = EmptyBag

CategoryButtonsIdle ==
    /\ feedback_timers = {}
    /\ \A idx \in DOMAIN category_button_ids :
           items[category_button_ids[idx]].theme = RestingTheme(CatAt(categories, idx))

NavButtonsIdle ==
    /\ nav_feedback = EmptyDict
    /\ \A which \in NavButtons : nav_theme[which] = NavTheme(which)

\* C12: after any sequence of activations of category and navigation
\* buttons, once all started timers have fired, every button is bound to
\* its resting theme and the feedback-timer map holds no entries.
C12_IdleAfterPulse == AllTimersDone => (CategoryButtonsIdle /\ NavButtonsIdle)

\* entry i of the list exists and has a name and a path
Configured(cats, i) == i < Len(cats) /\ cats[i + 1].name # <<>> /\ cats[i + 1].path # <<>>

\* the nine buttons of the Dear PyGui grid, defined exactly where configured
DpgGridBuilt ==
    /\ DOMAIN category_button_ids = 0..(NumCategories - 1)
    /\ Cardinality({category_button_ids[i] : i \in DOMAIN category_button_ids}) = NumCategories
    /\ DOMAIN items = {category_button_ids[i] : i \in DOMAIN category_button_ids}
    /\ \A i \in DOMAIN category_button_ids :
           items[category_button_ids[i]].theme =
               IF Configured(categories, i) THEN "category_defined" ELSE "category"

\* the nine buttons of the Tk grid, showing a name exactly where configured
TkGridBuilt ==
    /\ Len(cat_buttons) = NumCategories
    /\ \A i \in 0..(NumCategories - 1) :
           /\ cat_buttons[i + 1].click = <<>> /\ cat_buttons[i + 1].right = <<>>
           /\ cat_buttons[i + 1].text =
                  IF Configured(tk_categories, i)
                  THEN <<Digits[i + 1], ": ">> \o tk_categories[i + 1].name
                  ELSE <<Digits[i + 1], ": ", "Select a category">>

\* C13: set_categories with a list of at most 9 entries rebuilds the grid as
\* exactly 9 buttons for the indices 0..8, in both front-ends; button i is in
\* the defined state exactly when entry i exists and has a non-empty name and
\* a non-empty path, and is unconfigured otherwise.
C13_NineButtons ==
    /\ (lastEvent.kind = "set_categories" /\ Len(categories) <= NumCategories)
           => DpgGridBuilt
    /\ (lastEvent.kind = "tk_set_categories" /\ Len(tk_categories) <= NumCategories)
           => TkGridBuilt

\* C13 witness: the Tk grid was just rebuilt from a one-entry list with name
\* and path, after the Dear PyGui grid was built from an entry with a name
\* and no path: the first has button 1 defined, the second has it
\* unconfigured, and both have nine buttons.
C13_Witness ==
    /\ lastEvent.kind = "tk_set_categories"
    /\ tk_categories = <<[name |-> <<"A">>, path |-> <<"/x">>]>>
    /\ Len(cat_buttons) = NumCategories
    /\ cat_buttons[1].text = <<"1", ": ", "A">>
    /\ categories = <<[name |-> <<"A">>, path |-> <<>>]>>
    /\ Cardinality(DOMAIN items) = NumCategories
    /\ items[category_button_ids[0]].theme = "category"

\* C14: the category indices the view knows are within 0..8: neither the
\* button map nor the category callback map ever holds a key outside 0..8,
\* whatever list length or idx the caller passes.
C14_IndicesInRange ==
    /\ DOMAIN category_button_ids \subseteq 0..(NumCategories - 1)
    /\ DOMAIN category_callbacks \subseteq 0..(NumCategories - 1)

NavCall(which) == <<[fn |-> which, arg |-> NoArg]>>

\* C15: a Left (Right) arrow key press invokes the registered prev (next)
\* callback exactly once, the handler the prev (next) button invokes, whether
\* the modal flag is true or false.
C15_ArrowKeysAlwaysActive ==
    /\ "prev" \in callbacks =>
           (lastEvent.kind \in {"key_left", "prev_button"} => calls = NavCall("prev"))
    /\ "next" \in callbacks =>
           (lastEvent.kind \in {"key_right", "next_button"} => calls = NavCall("next"))

\* C15 witness: the Left key was pressed while the modal flag was true and
\* the prev callback ran once.
C15_Witness ==
    /\ modal_open
    /\ lastEvent.kind = "key_left"
    /\ "prev" \in callbacks
    /\ calls = NavCall("prev")

\* bind_category(idx, f_idx, g_idx) has been called for every slot since the
\* grid was built
TkAllBound ==
    /\ Len(cat_buttons) = NumCategories
    /\ \A idx \in 0..(NumCategories - 1) :
           cat_buttons[idx + 1].click = <<[fn |-> ClickHandlers[idx + 1], arg |-> idx]>>

\* C16: in the Tk MainWindow, with every slot bound to handlers of its own,
\* digit key idx+1 does what a left-click on button idx does: it invokes the
\* click handler f_idx of that slot with idx.
C16_TkKeyEqualsClick ==
    (TkAllBound /\ lastEvent.kind = "tk_key") =>
        calls = <<[fn |-> ClickHandlers[lastEvent.idx + 1], arg |-> lastEvent.idx]>>

\* every handler pair of the Dear PyGui view is still registered after the step
DpgBindingsKept ==
    \A idx \in DOMAIN category_callbacks \cap GridIdx :
        /\ idx \in DOMAIN category_callbacks'
        /\ category_callbacks'[idx] = category_callbacks[idx]

\* every bound button of the Tk window is still bound as it was after the step
TkBindingsKept ==
    \A i \in 1..Len(cat_buttons) :
        cat_buttons[i].click # <<>> =>
            /\ i <= Len(cat_buttons')
            /\ cat_buttons'[i].click = cat_buttons[i].click
            /\ cat_buttons'[i].right = cat_buttons[i].right

\* C17: a handler pair registered with bind_category(idx, f, g) stays
\* registered over every push of state (show_image, update_status,
\* set_selected_folder_path, set_categories), so that a later left-click on
\* slot idx still invokes f(idx) and a right-click g(idx).
C17_BindingsPersist ==
    [][/\ lastEvent'.kind \in PushKinds \cup {"set_categories"} => DpgBindingsKept
       /\ lastEvent'.kind \in PushKinds \cup {"tk_set_categories"} => TkBindingsKept]_vars

\* the step is a gesture whose callback is not registered
UnregisteredGesture ==
    \/ lastEvent'.kind \in {"next_button", "key_right"} /\ "next" \notin callbacks
    \/ lastEvent'.kind \in {"prev_button", "key_left"} /\ "prev" \notin callbacks
    \/ lastEvent'.kind = "select_folder" /\ "select_folder" \notin callbacks
    \/ lastEvent'.kind = "reset" /\ "reset" \notin callbacks
    \/ lastEvent'.kind = "destroy" /\ "close" \notin callbacks
    \/ /\ lastEvent'.kind \in {"click", "right_click", "key"}
       /\ lastEvent'.idx \notin DOMAIN category_callbacks

\* C18: a gesture whose callback was never registered (next, prev,
\* select_folder, reset, close, or a click, right-click or digit key on a slot
\* with no bind_category) is a silent no-op: no handler runs and the callback
\* registries and the modal flag are unchanged.
C18_MissingCallbackNoOp ==
    [][UnregisteredGesture =>
           /\ calls' = <<>>
           /\ UNCHANGED <<callbacks, category_callbacks, modal_open>>]_vars

\* C18 witness: digit key 1 was pressed on an existing button of a slot
\* that has no handlers, while other callbacks are registered; the feedback
\* ran and no handler did.
C18_Witness ==
    /\ lastEvent = Event("key", 0)
    /\ 0 \in DOMAIN category_button_ids
    /\ 0 \notin DOMAIN category_callbacks
    /\ "prev" \in callbacks
    /\ timers # EmptyBag
    /\ calls = <<>>

\* C19: over any interleaving of opening and closing the category dialog
\* and the About dialog, the modal flag is true if and only if at least one
\* of those dialogs is open.
C19_FlagIffDialogOpen ==
    modal_open <=> (about_shown \/ \E w \in Windows : Shown(w))

\* the pulse of the latest activation of button idx is pending: the timer the
\* map holds for idx waits, and it is a timer of the current button
PulsePending(idx) ==
    /\ idx \in DOMAIN category_button_ids
    /\ \E t \in BagToSet(timers) :
           /\ t.idx = idx /\ t.held /\ t.pc = "waiting"
           /\ t.button_id = category_button_ids[idx]

\* C20: under every interleaving of the timer thread with the UI thread, the
\* restore callback of a superseded timer neither rebinds the button to its
\* resting theme while the newer pulse is pending, nor removes the entry of
\* the newer timer from the feedback-timer map: a button whose pulse is
\* pending shows the feedback theme, and a timer that waits has its entry.
C20_SupersededTimerHarmless ==
    /\ \A idx \in GridIdx :
           PulsePending(idx) => items[category_button_ids[idx]].theme = "category_feedback"
    /\ \A t \in BagToSet(timers) : t.pc = "waiting" => t.idx \in feedback_timers

\* C21: in the Tk MainWindow, the rebuild a resize schedules changes neither
\* what the category buttons show nor what they do: when it runs on the
\* buttons the resize saw, every button keeps its label (configured name or
\* unconfigured text) and its left-click still calls the handler bound with
\* bind_category.
C21_ResizeKeepsButtons ==
    [][ (lastEvent'.kind = "tk_idle_rebuild" /\ ResizeCategories(cat_buttons) = Head(idle_queue))
        => /\ Len(cat_buttons') >= Len(cat_buttons)
           /\ \A i \in 1..Len(cat_buttons) :
                  /\ cat_buttons'[i].text = cat_buttons[i].text
                  /\ cat_buttons'[i].click = cat_buttons[i].click ]_vars

\* C22: in DearPyGuiView the select-folder button is disabled for the whole
\* time a select_folder callback is running and enabled whenever no
\* _on_select_folder call is in flight, whether the callback returned or
\* raised.
C22_ButtonDisabledWhileRunning ==
    select_folder_enabled <=> (select_frames = 0)

====
